---- MODULE Spec2Model ----
(***************************************************************************)
(* Detective Quest (src/detetivequest.c): the mansion map (binary tree of  *)
(* rooms), the ledger of collected clues (binary search tree with          *)
(* counters), the clue -> suspect hash table, the exploration loop and the *)
(* final accusation.                                                       *)
(*                                                                         *)
(* C strings are sequences of bytes (unsigned char values, the source is   *)
(* UTF-8).  Pointers are indices into a heap, one heap per struct type,    *)
(* with 0 for NULL; malloc appends to the heap.                            *)
(***************************************************************************)
EXTENDS Integers, Sequences, FiniteSets, Bags, TLC

VARIABLES
    pc,               \* position of main: "montagem", "sala", "comando", "acusacao", "limpeza", "fim" ("lib" in SpecLib)
    salas,            \* heap of Sala structs
    atual,            \* Sala *atual of explorarSalasComPistas
    pistas,           \* heap of PistaNode structs
    rootPistas,       \* PistaNode *rootPistas of main
    entradas,         \* heap of HashEntry structs
    tabelaHash,       \* HashEntry *tabelaHash[HASH_SIZE]
    linha,            \* char linha[128] of explorarSalasComPistas
    acusacao,         \* char acusacao[128] of main
    totalQueApontam,  \* int totalQueApontam of main: <<>> while it does not exist, <<n>> once computed
    listagem,         \* what exibirPistasInOrder printed
    saida,            \* the message printed by the last step
    resto,            \* stdin: bytes of the current line not yet consumed
    fimEntrada,       \* stdin: the stream ends after resto
    linhasRestantes,  \* stdin: <<n>> when only n more lines will come, <<>> when any number may
    liberados,        \* what the cleanup did to the structs, in order, per heap: <<"usa", p>>, <<"free", p>>
    chamadasPista,    \* history: the bag of the clues passed to inserirPista
    chamadasHash,     \* history: the inserirNaHash calls, in order
    visitadas         \* history: the rooms the exploration has been in, in order

vars == <<pc, salas, atual, pistas, rootPistas, entradas, tabelaHash, linha,
          acusacao, totalQueApontam, listagem, saida, resto, fimEntrada,
          liberados, chamadasPista, chamadasHash, linhasRestantes, visitadas>>

---------------------------------------------------------------------------
(* Bounds of the library specification SpecLib *)
MaxPistas == 4
MaxAssoc == 2

(* Bound of the finite inputs of SpecFinita: the number of lines of stdin *)
MaxLinhas == 4

(* Bound of the table specification SpecHash: the number of inserirNaHash calls *)
MaxInsercoes == 4

---------------------------------------------------------------------------
(* Constants of the program *)
NULL == 0
NullStr == <<-1>>
NL == 10
HASH_SIZE == 31
TAM_LINHA == 128
LimiarAcusacao == 2
ULongLimb == 65536
SementeDjb2 == 5381

---------------------------------------------------------------------------
(* String literals of main *)
Marca == <<77,97,114,99,97,32,100,101,32,108,117,118,97,32,99,111,109,32,112,111,101,105,114,97>>
Copo == <<67,111,112,111,32,113,117,101,98,114,97,100,111,32,99,111,109,32,112,101,103,97,100,97,115>>
Cha == <<114,101,115,116,111,32,100,101,32,99,104,195,161,32,100,101,32,101,114,118,97,115>>
Notas == <<110,111,116,97,115,32,114,97,115,103,97,100,97,115,32,99,111,109,32,105,110,105,99,105,97,105,115,32,65,46,66,46>>
Chave == <<112,101,195,167,97,32,100,101,32,99,104,97,118,101,32,105,110,103,108,101,115,97,32,99,111,109,32,118,101,114,110,105,122>>
Almeida == <<83,114,46,32,65,108,109,101,105,100,97>>
Beatriz == <<83,114,97,46,32,66,101,97,116,114,105,122>>
Camila == <<83,114,116,97,46,32,67,97,109,105,108,97>>

---------------------------------------------------------------------------
(* C library *)

Min(a, b) == IF a < b THEN a ELSE b

\* strlen(s)
StrLen(s) == Len(s)

\* tolower((unsigned char) c) in the "C" locale
ToLower(c) == IF c >= 65 /\ c <= 90 THEN c + 32 ELSE c

\* strcmp(a, b): the sign of the first differing byte, compared as unsigned
\* char; the end of a string is the byte 0, below every other byte
RECURSIVE StrCmpFrom(_, _, _)
StrCmpFrom(a, b, i) ==
    IF i > Len(a) /\ i > Len(b) THEN 0
    ELSE IF i > Len(a) THEN -1
    ELSE IF i > Len(b) THEN 1
    ELSE IF a[i] < b[i] THEN -1
    ELSE IF a[i] > b[i] THEN 1
    ELSE StrCmpFrom(a, b, i + 1)

StrCmp(a, b) == StrCmpFrom(a, b, 1)

\* fgets(buf, size, stdin) on a stream whose current line is fluxo (its bytes
\* up to and including the newline, or up to the end of the stream): NULL
\* when nothing is left, else at most size-1 bytes, the rest left unread
Fgets(fluxo, size) ==
    LET n == Min(size - 1, Len(fluxo))
    IN  [nulo  |-> Len(fluxo) = 0,
         lido  |-> SubSeq(fluxo, 1, n),
         resto |-> SubSeq(fluxo, n + 1, Len(fluxo))]

---------------------------------------------------------------------------
(* String helpers *)

trim_nl(s) ==
    IF s = NullStr THEN s
    ELSE IF Len(s) = 0 THEN s
    ELSE IF s[Len(s)] = NL THEN SubSeq(s, 1, Len(s) - 1)
    ELSE s

---------------------------------------------------------------------------
(* Rooms *)

criarSala(nome, pista) ==
    [nome |-> nome, pista |-> pista, pistaColetada |-> 0, esq |-> NULL, dir |-> NULL]

\* what liberarSalas does to the structs Sala, in order: <<"usa", p>> for a
\* read of a field of *p, <<"free", p>> for free(p)
RECURSIVE liberarSalas(_, _)
liberarSalas(hs, root) ==
    IF root = NULL THEN <<>>
    ELSE << <<"usa", root>> >> \o liberarSalas(hs, hs[root].esq)
         \o << <<"usa", root>> >> \o liberarSalas(hs, hs[root].dir)
         \o << <<"usa", root>>, <<"usa", root>>, <<"free", root>> >>

---------------------------------------------------------------------------
(* Ledger of clues: binary search tree *)

\* variant: the counter of a new node starts at 0
novoNoPistaContadorZero(hp, pista) ==
    <<Append(hp, [pista |-> pista, contador |-> 0, esq |-> NULL, dir |-> NULL]),
      Len(hp) + 1>>

\* <<heap, pointer to the new node>>
novoNoPista(hp, pista) ==
    <<Append(hp, [pista |-> pista, contador |-> 1, esq |-> NULL, dir |-> NULL]),
      Len(hp) + 1>>

\* variant: the arguments of strcmp are swapped
RECURSIVE inserirPistaTrocada(_, _, _)
inserirPistaTrocada(hp, root, pista) ==
    IF root = NULL THEN <<Append(hp, [pista |-> pista, contador |-> 1,
                                      esq |-> NULL, dir |-> NULL]), Len(hp) + 1>>
    ELSE LET cmp == StrCmp(hp[root].pista, pista)
         IN  IF cmp = 0 THEN
                 <<[hp EXCEPT ![root].contador = @ + 1], root>>
             ELSE IF cmp < 0 THEN
                 LET r == inserirPistaTrocada(hp, hp[root].esq, pista)
                 IN  <<[r[1] EXCEPT ![root].esq = r[2]], root>>
             ELSE
                 LET r == inserirPistaTrocada(hp, hp[root].dir, pista)
                 IN  <<[r[1] EXCEPT ![root].dir = r[2]], root>>

\* variant: a clue equal to the node's goes to the right like a greater one
RECURSIVE inserirPistaDuplica(_, _, _)
inserirPistaDuplica(hp, root, pista) ==
    IF root = NULL THEN <<Append(hp, [pista |-> pista, contador |-> 1,
                                      esq |-> NULL, dir |-> NULL]), Len(hp) + 1>>
    ELSE LET cmp == StrCmp(pista, hp[root].pista)
         IN  IF cmp < 0 THEN
                 LET r == inserirPistaDuplica(hp, hp[root].esq, pista)
                 IN  <<[r[1] EXCEPT ![root].esq = r[2]], root>>
             ELSE
                 LET r == inserirPistaDuplica(hp, hp[root].dir, pista)
                 IN  <<[r[1] EXCEPT ![root].dir = r[2]], root>>

\* <<heap, returned root>>
RECURSIVE inserirPista(_, _, _)
inserirPista(hp, root, pista) ==
    IF root = NULL THEN novoNoPista(hp, pista)
    ELSE LET cmp == StrCmp(pista, hp[root].pista)
         IN  IF cmp = 0 THEN
                 <<[hp EXCEPT ![root].contador = @ + 1], root>>
             ELSE IF cmp < 0 THEN
                 LET r == inserirPista(hp, hp[root].esq, pista)
                 IN  <<[r[1] EXCEPT ![root].esq = r[2]], root>>
             ELSE
                 LET r == inserirPista(hp, hp[root].dir, pista)
                 IN  <<[r[1] EXCEPT ![root].dir = r[2]], root>>

\* variant: a node is printed before its subtrees
RECURSIVE exibirPistasPreOrder(_, _)
exibirPistasPreOrder(hp, root) ==
    IF root = NULL THEN <<>>
    ELSE << <<hp[root].pista, hp[root].contador>> >>
         \o exibirPistasPreOrder(hp, hp[root].esq)
         \o exibirPistasPreOrder(hp, hp[root].dir)

\* the lines exibirPistasInOrder prints: <<clue, counter>>
RECURSIVE exibirPistasInOrder(_, _)
exibirPistasInOrder(hp, root) ==
    IF root = NULL THEN <<>>
    ELSE exibirPistasInOrder(hp, hp[root].esq)
         \o << <<hp[root].pista, hp[root].contador>> >>
         \o exibirPistasInOrder(hp, hp[root].dir)

\* what liberarPistas does to the structs PistaNode, in order
RECURSIVE liberarPistas(_, _)
liberarPistas(hp, root) ==
    IF root = NULL THEN <<>>
    ELSE << <<"usa", root>> >> \o liberarPistas(hp, hp[root].esq)
         \o << <<"usa", root>> >> \o liberarPistas(hp, hp[root].dir)
         \o << <<"usa", root>>, <<"free", root>> >>

---------------------------------------------------------------------------
(* Hash table *)

\* one step of djb2 on an unsigned long of four 16-bit limbs (least
\* significant first): hash * 33 + c, modulo 2^64 (x is the value of h,
\* computed once)
Djb2Passo(h, c) ==
    CHOOSE r \in { LET t1 == x[1] * 33 + c
                       t2 == x[2] * 33 + (t1 \div ULongLimb)
                       t3 == x[3] * 33 + (t2 \div ULongLimb)
                       t4 == x[4] * 33 + (t3 \div ULongLimb)
                   IN  <<t1 % ULongLimb, t2 % ULongLimb, t3 % ULongLimb, t4 % ULongLimb>> :
                   x \in {h} } : TRUE

\* the loop of hash_djb2 from byte i on (h2 is the value of the hash after
\* byte i, computed before the loop goes on)
RECURSIVE Djb2De(_, _, _)
Djb2De(h, str, i) ==
    IF i > Len(str) THEN h
    ELSE CHOOSE r \in { Djb2De(h2, str, i + 1) : h2 \in {Djb2Passo(h, str[i])} } : TRUE

hash_djb2(str) == Djb2De(<<SementeDjb2, 0, 0, 0>>, str, 1)

\* h % m for an unsigned long h
ULongMod(h, m) ==
    ((((((h[4] % m) * ULongLimb + h[3]) % m) * ULongLimb + h[2]) % m) * ULongLimb + h[1]) % m

Balde(pista) == ULongMod(hash_djb2(pista), HASH_SIZE)

\* <<heap, table>>
inserirNaHash(he, tab, pista, suspeito) ==
    LET h == Balde(pista)
        entry == [pista |-> pista, suspeito |-> suspeito, prox |-> tab[h]]
    IN  <<Append(he, entry), [tab EXCEPT ![h] = Len(he) + 1]>>

\* variant: only the head of the chain is compared
ProcurarSoNaCabeca(he, cur, pista) ==
    IF cur = NULL THEN NullStr
    ELSE IF StrCmp(he[cur].pista, pista) = 0 THEN he[cur].suspeito
    ELSE NullStr

\* variant: the last entry of the chain that matches is returned
RECURSIVE ProcurarUltimoNaCadeia(_, _, _)
ProcurarUltimoNaCadeia(he, cur, pista) ==
    IF cur = NULL THEN NullStr
    ELSE IF ProcurarUltimoNaCadeia(he, he[cur].prox, pista) # NullStr
         THEN ProcurarUltimoNaCadeia(he, he[cur].prox, pista)
    ELSE IF StrCmp(he[cur].pista, pista) = 0 THEN he[cur].suspeito
    ELSE NullStr

RECURSIVE ProcurarNaCadeia(_, _, _)
ProcurarNaCadeia(he, cur, pista) ==
    IF cur = NULL THEN NullStr
    ELSE IF StrCmp(he[cur].pista, pista) = 0 THEN he[cur].suspeito
    ELSE ProcurarNaCadeia(he, he[cur].prox, pista)

encontrarSuspeito(he, tab, pista) == ProcurarNaCadeia(he, tab[Balde(pista)], pista)

\* variant: the link to the next entry is read after the entry is freed
RECURSIVE LiberarCadeiaLeDepois(_, _)
LiberarCadeiaLeDepois(he, cur) ==
    IF cur = NULL THEN <<>>
    ELSE << <<"usa", cur>>, <<"usa", cur>>, <<"free", cur>>, <<"usa", cur>> >>
         \o LiberarCadeiaLeDepois(he, he[cur].prox)

\* what the while loop of liberarHash does to the structs HashEntry of one
\* chain, in order: cur->prox, cur->pista and cur->suspeito are read, then
\* cur is freed
RECURSIVE LiberarCadeia(_, _)
LiberarCadeia(he, cur) ==
    IF cur = NULL THEN <<>>
    ELSE << <<"usa", cur>>, <<"usa", cur>>, <<"usa", cur>>, <<"free", cur>> >>
         \o LiberarCadeia(he, he[cur].prox)

RECURSIVE LiberarBaldes(_, _, _)
LiberarBaldes(he, tab, i) ==
    IF i >= HASH_SIZE THEN <<>>
    ELSE LiberarCadeia(he, tab[i]) \o LiberarBaldes(he, tab, i + 1)

liberarHash(he, tab) == LiberarBaldes(he, tab, 0)

TabelaVazia == [i \in 0..(HASH_SIZE - 1) |-> NULL]

---------------------------------------------------------------------------
(* Accusation *)

\* variant: the subtrees of a node that matches are not visited
RECURSIVE contarAtePrimeiroAcerto(_, _, _, _, _)
contarAtePrimeiroAcerto(hp, root, he, tab, suspeitoAlvo) ==
    IF root = NULL THEN 0
    ELSE LET sus == encontrarSuspeito(he, tab, hp[root].pista)
         IN  IF sus # NullStr /\ StrCmp(sus, suspeitoAlvo) = 0
             THEN hp[root].contador
             ELSE contarAtePrimeiroAcerto(hp, hp[root].esq, he, tab, suspeitoAlvo)
                  + contarAtePrimeiroAcerto(hp, hp[root].dir, he, tab, suspeitoAlvo)

RECURSIVE contarPistasQueApontam(_, _, _, _, _)
contarPistasQueApontam(hp, root, he, tab, suspeitoAlvo) ==
    IF root = NULL THEN 0
    ELSE LET sus == encontrarSuspeito(he, tab, hp[root].pista)
             total == IF sus # NullStr /\ StrCmp(sus, suspeitoAlvo) = 0
                      THEN hp[root].contador ELSE 0
         IN  total
             + contarPistasQueApontam(hp, hp[root].esq, he, tab, suspeitoAlvo)
             + contarPistasQueApontam(hp, hp[root].dir, he, tab, suspeitoAlvo)

---------------------------------------------------------------------------
(* The accusation phase of main, after the name was read *)

\* variant: the threshold itself does not sustain
VeredictoAcimaDoLimiar(total) == IF total > LimiarAcusacao THEN "sustentada" ELSE "fraca"

\* the verdict of main for a tally
Veredicto(total) == IF total >= LimiarAcusacao THEN "sustentada" ELSE "fraca"

\* variant: the empty name is judged like any other
JulgarSemTesteDeVazio(hp, root, he, tab, nome) ==
    LET t == contarPistasQueApontam(hp, root, he, tab, nome)
    IN  [total |-> <<t>>, saida |-> Veredicto(t)]

\* what main computes and prints for the accused name in its buffer
Julgar(hp, root, he, tab, nome) ==
    IF StrLen(nome) = 0 THEN [total |-> <<>>, saida |-> "sem_acusacao"]
    ELSE LET t == contarPistasQueApontam(hp, root, he, tab, nome)
         IN  [total |-> <<t>>, saida |-> Veredicto(t)]

---------------------------------------------------------------------------
(* The map and the associations main builds *)

Hall == 1

SalasDeMain ==
    LET hall       == criarSala("Hall de Entrada", NullStr)
        biblioteca == criarSala("Biblioteca", Marca)
        salaEstar  == criarSala("Sala de Estar", Copo)
        cozinha    == criarSala("Cozinha", Cha)
        jardim     == criarSala("Jardim", NullStr)
        corredor   == criarSala("Corredor", Notas)
        oficina    == criarSala("Oficina", Chave)
    IN  << [hall EXCEPT !.esq = 2, !.dir = 3],
           [biblioteca EXCEPT !.esq = 4, !.dir = 5],
           [salaEstar EXCEPT !.esq = 6, !.dir = 7],
           cozinha, jardim, corredor, oficina >>

\* variant: the clue of the kitchen points to Sr. Almeida
AssociacoesComChaDeAlmeida ==
    << <<Marca, Almeida>>, <<Copo, Beatriz>>, <<Cha, Almeida>>,
       <<Notas, Beatriz>>, <<Chave, Almeida>> >>

AssociacoesDeMain ==
    << <<Marca, Almeida>>, <<Copo, Beatriz>>, <<Cha, Camila>>,
       <<Notas, Beatriz>>, <<Chave, Almeida>> >>

---------------------------------------------------------------------------
(* Standard input *)

Repetir(c, n) == [i \in 1..n |-> c]

\* a line that fills the buffer of fgets exactly, without its newline
LinhaCheia == Repetir(120, TAM_LINHA - 1)

\* the lines (without their newline) the player may type
Linhas ==
    { <<>>,
      <<101>>, <<100>>, <<115>>,               \* e d s
      <<69>>, <<68>>, <<83>>,                  \* E D S
      <<32, 101>>, <<101, 32>>, <<69, 32>>,    \* " e"  "e "  "E "
      <<9, 100>>,                              \* "\td"
      <<101, 120>>, <<115, 120>>,              \* ex sx
      <<101, 120, 105, 116>>,                  \* exit
      <<120>>,                                 \* x
      LinhaCheia, LinhaCheia \o <<101>>, LinhaCheia \o <<115>>,
      <<115>> \o LinhaCheia,
      Almeida, Beatriz, Camila,
      <<115,114,97,46,32,98,101,97,116,114,105,122>>,   \* sra. beatriz
      <<66,101,97,116,114,105,122>> }                   \* Beatriz

\* what the stream holds for the next fgets: the unread rest of the current
\* line, or a new line, ended by a newline or by the end of the stream;
\* nothing but the end of the stream once the lines of a finite input are read
Entradas ==
    IF resto # <<>> \/ fimEntrada
    THEN {[fluxo |-> resto, fim |-> fimEntrada, restantes |-> linhasRestantes]}
    ELSE IF linhasRestantes = <<0>>
    THEN {[fluxo |-> <<>>, fim |-> TRUE, restantes |-> linhasRestantes]}
    ELSE {[fluxo |-> IF nl THEN Append(l, NL) ELSE l, fim |-> ~nl,
           restantes |-> IF linhasRestantes = <<>> THEN <<>>
                         ELSE <<linhasRestantes[1] - 1>>] :
              l \in Linhas, nl \in BOOLEAN}

---------------------------------------------------------------------------
(* explorarSalasComPistas *)

\* variant: the collected flag is not consulted
PistaPorColetarSemFlag(s) == s.pista # NullStr

\* variant: the clue pointer is not tested
PistaPorColetarSemTesteDePista(s) == s.pistaColetada = 0

\* the room has a clue that was not collected yet
PistaPorColetar(s) == s.pista # NullStr /\ s.pistaColetada = 0

\* variant: the case of the command character is kept
ComandoSemMinuscula(l) == l[1]

\* the command character of a non-empty line
Comando(l) == ToLower(l[1])

\* variant: e and d follow the link without testing it
ExecutarComandoSemTeste(hs, at, l) ==
    IF StrLen(l) = 0 THEN [pc |-> "sala", atual |-> at, saida |-> "nenhuma"]
    ELSE LET cmd == ToLower(l[1])
         IN  IF cmd = 115 THEN
                 [pc |-> "acusacao", atual |-> at, saida |-> "encerrar"]
             ELSE IF cmd = 101 THEN
                 [pc |-> "sala", atual |-> hs[at].esq, saida |-> "nenhuma"]
             ELSE IF cmd = 100 THEN
                 [pc |-> "sala", atual |-> hs[at].dir, saida |-> "nenhuma"]
             ELSE [pc |-> "sala", atual |-> at, saida |-> "invalido"]

\* variant: an invalid command leads back to the entrance
ExecutarComandoVoltaAoHall(hs, at, l) ==
    IF StrLen(l) = 0 THEN [pc |-> "sala", atual |-> at, saida |-> "nenhuma"]
    ELSE LET cmd == ToLower(l[1])
         IN  IF cmd = 115 THEN
                 [pc |-> "acusacao", atual |-> at, saida |-> "encerrar"]
             ELSE IF cmd = 101 THEN
                 IF hs[at].esq # NULL
                 THEN [pc |-> "sala", atual |-> hs[at].esq, saida |-> "nenhuma"]
                 ELSE [pc |-> "sala", atual |-> at, saida |-> "sem_esquerda"]
             ELSE IF cmd = 100 THEN
                 IF hs[at].dir # NULL
                 THEN [pc |-> "sala", atual |-> hs[at].dir, saida |-> "nenhuma"]
                 ELSE [pc |-> "sala", atual |-> at, saida |-> "sem_direita"]
             ELSE [pc |-> "sala", atual |-> Hall, saida |-> "invalido"]

\* variant: a path that does not exist ends the exploration
ExecutarComandoSaiNaFolha(hs, at, l) ==
    IF StrLen(l) = 0 THEN [pc |-> "sala", atual |-> at, saida |-> "nenhuma"]
    ELSE LET cmd == ToLower(l[1])
         IN  IF cmd = 115 THEN
                 [pc |-> "acusacao", atual |-> at, saida |-> "encerrar"]
             ELSE IF cmd = 101 THEN
                 IF hs[at].esq # NULL
                 THEN [pc |-> "sala", atual |-> hs[at].esq, saida |-> "nenhuma"]
                 ELSE [pc |-> "acusacao", atual |-> at, saida |-> "sem_esquerda"]
             ELSE IF cmd = 100 THEN
                 IF hs[at].dir # NULL
                 THEN [pc |-> "sala", atual |-> hs[at].dir, saida |-> "nenhuma"]
                 ELSE [pc |-> "acusacao", atual |-> at, saida |-> "sem_direita"]
             ELSE [pc |-> "sala", atual |-> at, saida |-> "invalido"]

\* the effect of a line on the loop: where it continues, in which room, and
\* the message printed
ExecutarComando(hs, at, l) ==
    IF StrLen(l) = 0 THEN [pc |-> "sala", atual |-> at, saida |-> "nenhuma"]
    ELSE LET cmd == Comando(l)
         IN  IF cmd = 115 THEN
                 [pc |-> "acusacao", atual |-> at, saida |-> "encerrar"]
             ELSE IF cmd = 101 THEN
                 IF hs[at].esq # NULL
                 THEN [pc |-> "sala", atual |-> hs[at].esq, saida |-> "nenhuma"]
                 ELSE [pc |-> "sala", atual |-> at, saida |-> "sem_esquerda"]
             ELSE IF cmd = 100 THEN
                 IF hs[at].dir # NULL
                 THEN [pc |-> "sala", atual |-> hs[at].dir, saida |-> "nenhuma"]
                 ELSE [pc |-> "sala", atual |-> at, saida |-> "sem_direita"]
             ELSE [pc |-> "sala", atual |-> at, saida |-> "invalido"]

\* the top of the loop: the room is shown and its clue collected
ExplorarSala ==
    /\ pc = "sala"
    /\ IF PistaPorColetar(salas[atual]) THEN
           LET r == inserirPista(pistas, rootPistas, salas[atual].pista)
           IN  /\ pistas' = r[1]
               /\ rootPistas' = r[2]
               /\ salas' = [salas EXCEPT ![atual].pistaColetada = 1]
               /\ chamadasPista' = chamadasPista (+) SetToBag({salas[atual].pista})
               /\ saida' = "pista_encontrada"
       ELSE /\ saida' = IF salas[atual].pista # NullStr /\ salas[atual].pistaColetada # 0
                        THEN "ja_coletada" ELSE "sem_pista"
            /\ UNCHANGED <<pistas, rootPistas, salas, chamadasPista>>
    /\ pc' = "comando"
    /\ UNCHANGED <<atual, entradas, tabelaHash, linha, acusacao, totalQueApontam,
                   listagem, resto, fimEntrada, liberados, chamadasHash,
                   linhasRestantes, visitadas>>

\* the rest of the loop body: a line is read and obeyed
ExplorarComando ==
    /\ pc = "comando"
    /\ \E in \in Entradas :
           LET r == Fgets(in.fluxo, TAM_LINHA)
           IN  /\ resto' = r.resto
               /\ fimEntrada' = in.fim
               /\ linhasRestantes' = in.restantes
               /\ IF r.nulo THEN
                      /\ pc' = "acusacao"
                      /\ saida' = "nenhuma"
                      /\ UNCHANGED <<linha, atual, visitadas>>
                  ELSE LET x == ExecutarComando(salas, atual, trim_nl(r.lido))
                       IN  /\ linha' = trim_nl(r.lido)
                           /\ pc' = x.pc
                           /\ atual' = x.atual
                           /\ saida' = x.saida
                           /\ visitadas' = IF x.atual # atual
                                           THEN Append(visitadas, x.atual)
                                           ELSE visitadas
    /\ UNCHANGED <<salas, pistas, rootPistas, entradas, tabelaHash, acusacao,
                   totalQueApontam, listagem, liberados, chamadasPista, chamadasHash>>

---------------------------------------------------------------------------
(* main after the exploration *)

\* the listing of the clues, the accusation and its verdict
Acusar ==
    /\ pc = "acusacao"
    /\ listagem' = exibirPistasInOrder(pistas, rootPistas)
    /\ \E in \in Entradas :
           LET r == Fgets(in.fluxo, TAM_LINHA)
               nome == trim_nl(IF r.nulo THEN <<>> ELSE r.lido)
               j == Julgar(pistas, rootPistas, entradas, tabelaHash, nome)
           IN  /\ resto' = r.resto
               /\ fimEntrada' = in.fim
               /\ linhasRestantes' = in.restantes
               /\ acusacao' = nome
               /\ totalQueApontam' = j.total
               /\ saida' = j.saida
    /\ pc' = "limpeza"
    /\ UNCHANGED <<salas, atual, pistas, rootPistas, entradas, tabelaHash, linha,
                   liberados, chamadasPista, chamadasHash, visitadas>>

NadaLiberado == [pistas |-> <<>>, entradas |-> <<>>, salas |-> <<>>]

Limpeza ==
    /\ pc = "limpeza"
    /\ liberados' = [pistas   |-> liberarPistas(pistas, rootPistas),
                     entradas |-> liberarHash(entradas, tabelaHash),
                     salas    |-> liberarSalas(salas, Hall)]
    /\ tabelaHash' = TabelaVazia
    /\ pc' = "fim"
    /\ UNCHANGED <<salas, atual, pistas, rootPistas, entradas, linha, acusacao,
                   totalQueApontam, listagem, saida, resto, fimEntrada,
                   chamadasPista, chamadasHash, linhasRestantes, visitadas>>

\* main fills the table: the next of its inserirNaHash calls; after the last
\* one explorarSalasComPistas starts at the hall
MontarTabela ==
    /\ pc = "montagem"
    /\ LET k == Len(chamadasHash) + 1
           r == inserirNaHash(entradas, tabelaHash,
                              AssociacoesDeMain[k][1], AssociacoesDeMain[k][2])
       IN  /\ entradas' = r[1]
           /\ tabelaHash' = r[2]
           /\ chamadasHash' = Append(chamadasHash, AssociacoesDeMain[k])
           /\ pc' = IF k = Len(AssociacoesDeMain) THEN "sala" ELSE "montagem"
    /\ UNCHANGED <<salas, atual, pistas, rootPistas, linha, acusacao,
                   totalQueApontam, listagem, saida, resto, fimEntrada,
                   liberados, chamadasPista, linhasRestantes, visitadas>>

\* main after the map is built, before the table is filled
Init ==
    /\ pc = "montagem"
    /\ salas = SalasDeMain
    /\ atual = Hall
    /\ pistas = <<>>
    /\ rootPistas = NULL
    /\ entradas = <<>>
    /\ tabelaHash = TabelaVazia
    /\ linha = <<>>
    /\ acusacao = <<>>
    /\ totalQueApontam = <<>>
    /\ listagem = <<>>
    /\ saida = "nenhuma"
    /\ resto = <<>>
    /\ fimEntrada = FALSE
    /\ liberados = NadaLiberado
    /\ chamadasPista = EmptyBag
    /\ chamadasHash = <<>>
    /\ linhasRestantes = <<>>
    /\ visitadas = <<Hall>>

Next == MontarTabela \/ ExplorarSala \/ ExplorarComando \/ Acusar \/ Limpeza

Spec == Init /\ [][Next]_vars

\* the same program on a finite input: stdin holds at most MaxLinhas lines
InitFinita ==
    /\ pc = "montagem"
    /\ salas = SalasDeMain
    /\ atual = Hall
    /\ pistas = <<>>
    /\ rootPistas = NULL
    /\ entradas = <<>>
    /\ tabelaHash = TabelaVazia
    /\ linha = <<>>
    /\ acusacao = <<>>
    /\ totalQueApontam = <<>>
    /\ listagem = <<>>
    /\ saida = "nenhuma"
    /\ resto = <<>>
    /\ fimEntrada = FALSE
    /\ liberados = NadaLiberado
    /\ chamadasPista = EmptyBag
    /\ chamadasHash = <<>>
    /\ linhasRestantes = <<MaxLinhas>>
    /\ visitadas = <<Hall>>

\* the program is single-threaded and never blocks but in fgets, which
\* returns once the line (or the end of the stream) is there: up to the end
\* of the exploration every step that can be taken is taken
SpecFinita ==
    /\ InitFinita
    /\ [][Next]_vars
    /\ WF_vars(MontarTabela)
    /\ WF_vars(ExplorarSala)
    /\ WF_vars(ExplorarComando)

---------------------------------------------------------------------------
(* The ledger, the table and the verdict under arbitrary calls: inserirPista,
   inserirNaHash and the accusation applied to inputs drawn from small sets *)

\* clues: "AB" < "Ab" < "M"; "AB" and "M" fall into the same bucket
PistasLib == { <<65, 66>>, <<65, 98>>, <<77>> }

\* suspects "X" and "Y"; the accused may also be "Z" or nobody
SuspeitosLib == { <<88>>, <<89>> }
AcusadosLib == SuspeitosLib \cup { <<90>>, <<>> }

LibInserirPista(p) ==
    /\ pc = "lib"
    /\ BagCardinality(chamadasPista) < MaxPistas
    /\ pistas' = inserirPista(pistas, rootPistas, p)[1]
    /\ rootPistas' = inserirPista(pistas, rootPistas, p)[2]
    /\ chamadasPista' = chamadasPista (+) SetToBag({p})
    /\ UNCHANGED <<pc, salas, atual, entradas, tabelaHash, linha, acusacao,
                   totalQueApontam, listagem, saida, resto, fimEntrada,
                   liberados, chamadasHash, linhasRestantes, visitadas>>

LibInserirNaHash(p, s) ==
    /\ pc = "lib"
    /\ Len(chamadasHash) < MaxAssoc
    /\ entradas' = inserirNaHash(entradas, tabelaHash, p, s)[1]
    /\ tabelaHash' = inserirNaHash(entradas, tabelaHash, p, s)[2]
    /\ chamadasHash' = Append(chamadasHash, <<p, s>>)
    /\ UNCHANGED <<pc, salas, atual, pistas, rootPistas, linha, acusacao,
                   totalQueApontam, listagem, saida, resto, fimEntrada,
                   liberados, chamadasPista, linhasRestantes, visitadas>>

\* the listing and the verdict of main for a name already in its buffer
LibAcusar(nome) ==
    /\ pc = "lib"
    /\ listagem' = exibirPistasInOrder(pistas, rootPistas)
    /\ acusacao' = nome
    /\ totalQueApontam' = Julgar(pistas, rootPistas, entradas, tabelaHash, nome).total
    /\ saida' = Julgar(pistas, rootPistas, entradas, tabelaHash, nome).saida
    /\ pc' = "lib_fim"
    /\ UNCHANGED <<salas, atual, pistas, rootPistas, entradas, tabelaHash, linha,
                   resto, fimEntrada, liberados, chamadasPista, chamadasHash,
                   linhasRestantes, visitadas>>

InitLib ==
    /\ pc = "lib"
    /\ salas = <<>>
    /\ atual = NULL
    /\ pistas = <<>>
    /\ rootPistas = NULL
    /\ entradas = <<>>
    /\ tabelaHash = TabelaVazia
    /\ linha = <<>>
    /\ acusacao = <<>>
    /\ totalQueApontam = <<>>
    /\ listagem = <<>>
    /\ saida = "nenhuma"
    /\ resto = <<>>
    /\ fimEntrada = FALSE
    /\ liberados = NadaLiberado
    /\ chamadasPista = EmptyBag
    /\ chamadasHash = <<>>
    /\ linhasRestantes = <<>>
    /\ visitadas = <<>>

NextLib ==
    \/ \E p \in PistasLib : LibInserirPista(p)
    \/ \E p \in PistasLib, s \in SuspeitosLib : LibInserirNaHash(p, s)
    \/ \E nome \in AcusadosLib : LibAcusar(nome)

SpecLib == InitLib /\ [][NextLib]_vars

---------------------------------------------------------------------------
(* The table alone under longer sequences of inserirNaHash calls, keys and
   suspects drawn from the same sets *)

HashInserir(p, s) ==
    /\ pc = "lib"
    /\ Len(chamadasHash) < MaxInsercoes
    /\ entradas' = inserirNaHash(entradas, tabelaHash, p, s)[1]
    /\ tabelaHash' = inserirNaHash(entradas, tabelaHash, p, s)[2]
    /\ chamadasHash' = Append(chamadasHash, <<p, s>>)
    /\ UNCHANGED <<pc, salas, atual, pistas, rootPistas, linha, acusacao,
                   totalQueApontam, listagem, saida, resto, fimEntrada,
                   liberados, chamadasPista, linhasRestantes, visitadas>>

NextHash == \E p \in PistasLib, s \in SuspeitosLib : HashInserir(p, s)

SpecHash == InitLib /\ [][NextHash]_vars

---------------------------------------------------------------------------
(* Vocabulary of the properties *)

\* the nodes of the ledger reachable from root
RECURSIVE NosAlcancaveis(_, _)
NosAlcancaveis(hp, root) ==
    IF root = NULL THEN {}
    ELSE {root} \cup NosAlcancaveis(hp, hp[root].esq) \cup NosAlcancaveis(hp, hp[root].dir)

NosDoLivro == NosAlcancaveis(pistas, rootPistas)

RECURSIVE SomaContadores(_, _)
SomaContadores(hp, S) ==
    IF S = {} THEN 0
    ELSE LET n == CHOOSE x \in S : TRUE
         IN  hp[n].contador + SomaContadores(hp, S \ {n})

\* the ledger's count of a clue: the counters of all nodes holding it
ContagemNoLivro(p) == SomaContadores(pistas, {n \in NosDoLivro : pistas[n].pista = p})

\* a is below b in byte-wise lexicographic order
MenorBytes(a, b) ==
    \E i \in 1..Len(b) :
        /\ i <= Len(a) + 1
        /\ \A j \in 1..(i - 1) : a[j] = b[j]
        /\ (i > Len(a) \/ a[i] < b[i])

SalasComPista == {r \in 1..Len(salas) : salas[r].pista # NullStr}

---------------------------------------------------------------------------
(* C1: during the exploration the clue of a room is inserted into the ledger
   at most once: a browse of a room whose clue is not collected inserts the
   clue (its count grows by one) and marks the room, every other browse
   leaves the ledger as it is; so the number of insertions of a room's clue
   and its count in the ledger are the room's collected flag, 0 or 1. *)
C1_UmaInsercaoPorSala ==
    [][/\ pc = "sala" =>
            IF salas[atual].pista # NullStr /\ salas[atual].pistaColetada = 0
            THEN /\ salas'[atual].pistaColetada = 1
                 /\ chamadasPista' = chamadasPista (+) SetToBag({salas[atual].pista})
            ELSE UNCHANGED <<pistas, rootPistas, chamadasPista, salas>>
       /\ \A r \in SalasComPista :
            /\ CopiesIn(salas[r].pista, chamadasPista') = salas'[r].pistaColetada
            /\ ContagemNoLivro(salas[r].pista)' = salas'[r].pistaColetada
            /\ salas'[r].pistaColetada \in {0, 1}]_vars

\* a room is browsed again after its clue was collected there
C1_Witness ==
    /\ pc = "comando"
    /\ saida = "ja_coletada"
    /\ ContagemNoLivro(salas[atual].pista) = 1
    /\ BagCardinality(chamadasPista) >= 2

---------------------------------------------------------------------------
(* C2: when the accusation is judged, the verdict is "sustentada" exactly
   when the tally of contarPistasQueApontam for the accused is at least 2,
   and "fraca" exactly when it is 0 or 1. *)
C2_VeredictoPeloLimiar ==
    (pc \in {"lib_fim", "limpeza"} /\ acusacao # <<>>) =>
        /\ totalQueApontam =
             <<contarPistasQueApontam(pistas, rootPistas, entradas, tabelaHash, acusacao)>>
        /\ (saida = "sustentada") <=> (totalQueApontam[1] >= 2)
        /\ (saida = "fraca") <=> (totalQueApontam[1] \in {0, 1})

\* the boundary: a tally of exactly 2
C2_Witness ==
    /\ pc = "lib_fim"
    /\ totalQueApontam = <<2>>
    /\ saida = "sustentada"

---------------------------------------------------------------------------
(* C3: when the accusation buffer is empty after the read (an empty line, or
   no line at all), main reports "sem_acusacao": no tally exists and the
   verdict is neither "sustentada" nor "fraca". *)
C3_SemAcusacao ==
    (pc \in {"limpeza", "fim"} /\ acusacao = <<>>) =>
        /\ saida = "sem_acusacao"
        /\ totalQueApontam = <<>>

\* no accusation although the ledger holds both clues against Sra. Beatriz
C3_Witness ==
    /\ pc = "limpeza"
    /\ acusacao = <<>>
    /\ saida = "sem_acusacao"
    /\ ContagemNoLivro(Copo) = 1
    /\ ContagemNoLivro(Notas) = 1

---------------------------------------------------------------------------
(* C4: the ledger is a binary search tree under byte-wise lexicographic
   order (every clue in a left subtree is below its node's clue, every clue
   in a right subtree is above it), and its in-order listing is strictly
   ascending, so no clue is listed twice. *)
C4_LivroOrdenado ==
    /\ \A n \in NosDoLivro :
          /\ \A m \in NosAlcancaveis(pistas, pistas[n].esq) :
                MenorBytes(pistas[m].pista, pistas[n].pista)
          /\ \A m \in NosAlcancaveis(pistas, pistas[n].dir) :
                MenorBytes(pistas[n].pista, pistas[m].pista)
    /\ LET l == exibirPistasInOrder(pistas, rootPistas)
       IN  /\ Len(l) = Cardinality(NosDoLivro)
           /\ \A i \in 1..Len(l), j \in 1..Len(l) :
                 i < j => MenorBytes(l[i][1], l[j][1])

\* a root with both subtrees, one clue inserted twice
C4_Witness ==
    /\ rootPistas # NULL
    /\ pistas[rootPistas].esq # NULL
    /\ pistas[rootPistas].dir # NULL
    /\ BagCardinality(chamadasPista) = 4
    /\ pc = "lib"

---------------------------------------------------------------------------
(* C5: the ledger has exactly one node per distinct clue inserted, and the
   node's counter is the number of insertions of that clue. *)
C5_UmNoPorPista ==
    /\ \A p \in PistasLib \cup {Marca, Copo, Cha, Notas, Chave} :
          LET nos == {n \in NosDoLivro : pistas[n].pista = p}
          IN  IF CopiesIn(p, chamadasPista) = 0 THEN nos = {}
              ELSE /\ Cardinality(nos) = 1
                   /\ \A n \in nos : pistas[n].contador = CopiesIn(p, chamadasPista)
    /\ Cardinality(NosDoLivro) = Cardinality(BagToSet(chamadasPista))
    /\ Cardinality(NosDoLivro) = Len(pistas)

\* one clue inserted three times and another once
C5_Witness ==
    /\ pc = "lib"
    /\ Cardinality(NosDoLivro) = 2
    /\ \E n \in NosDoLivro : pistas[n].contador = 3

---------------------------------------------------------------------------
(* C6: after inserirNaHash calls with pairwise distinct keys,
   encontrarSuspeito returns for every inserted key the suspect inserted
   with it; for a key never inserted it returns NULL, whatever its bucket
   holds. *)
ChavesInseridas == {chamadasHash[i][1] : i \in 1..Len(chamadasHash)}

ChavesDistintas == Cardinality(ChavesInseridas) = Len(chamadasHash)

\* the keys looked up: the clues, "." (in the bucket of "AB" and "M") and ""
ConsultasLib == PistasLib \cup {<<46>>, <<>>}

C6_ConsultaAposInsercao ==
    /\ ChavesDistintas =>
          \A i \in 1..Len(chamadasHash) :
              encontrarSuspeito(entradas, tabelaHash, chamadasHash[i][1]) = chamadasHash[i][2]
    /\ \A p \in ConsultasLib \ ChavesInseridas :
          encontrarSuspeito(entradas, tabelaHash, p) = NullStr

\* "AB" and "M" share a bucket and have different suspects; "Ab" and "." were
\* never inserted, and the bucket of "." is not empty
C6_Witness ==
    /\ pc = "lib"
    /\ ChavesInseridas = {<<65, 66>>, <<77>>}
    /\ Balde(<<65, 66>>) = Balde(<<77>>)
    /\ Balde(<<46>>) = Balde(<<77>>)
    /\ encontrarSuspeito(entradas, tabelaHash, <<65, 66>>)
         # encontrarSuspeito(entradas, tabelaHash, <<77>>)
    /\ entradas[tabelaHash[Balde(<<77>>)]].prox # NULL

---------------------------------------------------------------------------
(* C7: contarPistasQueApontam is the sum of the counters of all the nodes of
   the ledger whose clue the table resolves to the target; nodes without an
   association count nothing, and a target no association names gives 0. *)
NosQueApontam(alvo) ==
    {n \in NosDoLivro : encontrarSuspeito(entradas, tabelaHash, pistas[n].pista) = alvo}

C7_SomaDosContadores ==
    /\ (pc = "lib") =>
          \A alvo \in AcusadosLib :
              contarPistasQueApontam(pistas, rootPistas, entradas, tabelaHash, alvo)
                = SomaContadores(pistas, NosQueApontam(alvo))
    /\ (pc = "lib_fim" /\ acusacao # <<>>) =>
          totalQueApontam = <<SomaContadores(pistas, NosQueApontam(acusacao))>>

\* tally 3 for "X": the root has no association, its left child (counter 2)
\* and its right child (counter 1) both point to "X"; nothing points to "Z"
C7_Witness ==
    /\ pc = "lib_fim"
    /\ acusacao = <<88>>
    /\ totalQueApontam = <<3>>
    /\ rootPistas # NULL
    /\ pistas[rootPistas].esq # NULL
    /\ pistas[rootPistas].dir # NULL
    /\ pistas[pistas[rootPistas].esq].contador = 2
    /\ encontrarSuspeito(entradas, tabelaHash, pistas[rootPistas].pista) = NullStr
    /\ NosQueApontam(<<90>>) = {}

---------------------------------------------------------------------------
(* Vocabulary of the properties about command lines *)

\* the step of the loop read a line (fgets did not return NULL)
LeuLinha == pc = "comando" /\ ~(pc' = "acusacao" /\ saida' = "nenhuma")

\* isspace in the "C" locale
EhEspaco(c) == c \in {9, 10, 11, 12, 13, 32}

\* a line without its leading and trailing whitespace, in lower case
Normalizada(l) ==
    LET idx == {i \in 1..Len(l) : ~EhEspaco(l[i])}
    IN  IF idx = {} THEN <<>>
        ELSE LET a == CHOOSE i \in idx : \A j \in idx : i <= j
                 b == CHOOSE i \in idx : \A j \in idx : i >= j
             IN  [k \in 1..(b - a + 1) |-> ToLower(l[a + k - 1])]

CmdE == <<101>>
CmdD == <<100>>
CmdS == <<115>>

\* where a left or a right command leads from the current room
DestinoEsq == IF salas[atual].esq # NULL THEN salas[atual].esq ELSE atual
DestinoDir == IF salas[atual].dir # NULL THEN salas[atual].dir ELSE atual

---------------------------------------------------------------------------
(* C8: every line read during the exploration that is not one of the
   commands e, d, s (the empty line and lines of several characters
   included) is reported as an invalid command and leaves the player in the
   same room. *)
C8_LinhaInvalida ==
    [][(LeuLinha /\ Normalizada(linha') \notin {CmdE, CmdD, CmdS}) =>
          /\ saida' = "invalido"
          /\ atual' = atual
          /\ pc' = "sala"]_vars

---------------------------------------------------------------------------
(* C9, as stated: a line that is e, d or s up to case and to leading and
   trailing whitespace has the effect of that command: e and d lead to the
   left and the right child (when it exists), s ends the exploration. *)
C9_ComandoNormalizado ==
    [][LeuLinha =>
          /\ Normalizada(linha') = CmdE => (pc' = "sala" /\ atual' = DestinoEsq)
          /\ Normalizada(linha') = CmdD => (pc' = "sala" /\ atual' = DestinoDir)
          /\ Normalizada(linha') = CmdS => (pc' = "acusacao" /\ atual' = atual)]_vars

\* a line without its trailing whitespace, in lower case
NormalizadaNoFim(l) ==
    LET idx == {i \in 1..Len(l) : ~EhEspaco(l[i])}
    IN  IF idx = {} THEN <<>>
        ELSE LET b == CHOOSE i \in idx : \A j \in idx : i >= j
             IN  [k \in 1..b |-> ToLower(l[k])]

(* C9, amended: a line that is e, d or s up to case and to trailing
   whitespace (the newline included) has the effect of that command; leading
   whitespace is not stripped: a line that starts with whitespace is
   reported as an invalid command and leaves the room unchanged. *)
C9_ComandoSemEspacoInicial ==
    [][LeuLinha =>
          /\ NormalizadaNoFim(linha') = CmdE => (pc' = "sala" /\ atual' = DestinoEsq)
          /\ NormalizadaNoFim(linha') = CmdD => (pc' = "sala" /\ atual' = DestinoDir)
          /\ NormalizadaNoFim(linha') = CmdS => (pc' = "acusacao" /\ atual' = atual)
          /\ (linha' # <<>> /\ EhEspaco(linha'[1])) =>
                (pc' = "sala" /\ atual' = atual /\ saida' = "invalido")]_vars

\* "E " was read in the hall and led to the library
C9_Witness ==
    /\ pc = "sala"
    /\ linha = <<69, 32>>
    /\ atual = salas[Hall].esq

---------------------------------------------------------------------------
(* C10: a left (right) command in a room without a left (right) child keeps
   the current room and changes neither the rooms (links, clues, collected
   flags) nor the ledger, and the browse step that follows it changes none
   of them either. *)
C10_SemCaminho ==
    [][/\ (LeuLinha /\ linha' \in {<<101>>, <<69>>} /\ salas[atual].esq = NULL) =>
            /\ pc' = "sala"
            /\ saida' = "sem_esquerda"
            /\ UNCHANGED <<atual, salas, pistas, rootPistas>>
       /\ (LeuLinha /\ linha' \in {<<100>>, <<68>>} /\ salas[atual].dir = NULL) =>
            /\ pc' = "sala"
            /\ saida' = "sem_direita"
            /\ UNCHANGED <<atual, salas, pistas, rootPistas>>
       /\ (pc = "sala" /\ saida \in {"sem_esquerda", "sem_direita"}) =>
            /\ pc' = "comando"
            /\ UNCHANGED <<atual, salas, pistas, rootPistas>>]_vars

\* in the kitchen, after a left command that found no path and the browse
\* step that followed it
C10_Witness ==
    /\ pc = "comando"
    /\ linha = <<101>>
    /\ salas[atual].esq = NULL
    /\ saida = "ja_coletada"

---------------------------------------------------------------------------
(* Vocabulary of the properties about the end of the exploration *)

\* main is in explorarSalasComPistas
NaExploracao == pc \in {"sala", "comando"}

\* the step leaves the loop of explorarSalasComPistas
FimDaExploracao == NaExploracao /\ ~NaExploracao'

\* the step read a line whose command character is s or S
LeuSair == LeuLinha /\ linha' # <<>> /\ ToLower(linha'[1]) = 115 /\ saida' = "encerrar"

\* the step found stdin exhausted: fgets returned NULL
LeuFimDaEntrada ==
    /\ pc = "comando"
    /\ resto = <<>>
    /\ fimEntrada'
    /\ resto' = <<>>
    /\ saida' = "nenhuma"
    /\ linha' = linha

Folha(r) == salas[r].esq = NULL /\ salas[r].dir = NULL

---------------------------------------------------------------------------
(* C11: the exploration loop is left only by a step that reads an exit
   command (command character s) or that finds the input exhausted; a
   command read in a leaf room that is not the exit command keeps the loop
   going.  Both ways of leaving keep the current room, the rooms (collected
   flags) and the ledger as they are, so the end of the input leaves them as
   an exit command read at that point would.  On every finite input the loop
   is eventually left. *)
C11_FimDaExploracao ==
    /\ [][/\ FimDaExploracao =>
               /\ pc = "comando" /\ pc' = "acusacao"
               /\ LeuSair \/ LeuFimDaEntrada
               /\ UNCHANGED <<atual, salas, pistas, rootPistas, chamadasPista>>
          /\ (LeuLinha /\ Folha(atual) /\ ~LeuSair) => pc' = "sala"]_vars
    /\ <>(~NaExploracao /\ pc # "montagem")

\* the input ended in the kitchen, after a left command there found no path
\* and the loop went on
C11_Witness ==
    /\ pc = "acusacao"
    /\ saida = "nenhuma"
    /\ Folha(atual)
    /\ linha = <<101>>
    /\ fimEntrada
    /\ linhasRestantes = <<MaxLinhas - 4>>
    /\ ContagemNoLivro(Marca) = 1
    /\ ContagemNoLivro(Cha) = 1

---------------------------------------------------------------------------
(* Vocabulary of the properties about the cleanup *)

\* how many times the log ev frees p
VezesLiberado(ev, p) == Cardinality({i \in 1..Len(ev) : ev[i] = <<"free", p>>})

\* the log ev frees each of the n structs of a heap exactly once, touches no
\* other pointer, and touches no struct after it was freed
LiberaCadaUmUmaVez(ev, n) ==
    /\ \A i \in 1..Len(ev) : ev[i][2] \in 1..n
    /\ \A p \in 1..n : VezesLiberado(ev, p) = 1
    /\ \A i \in 1..Len(ev), j \in 1..Len(ev) :
          (i < j /\ ev[i][1] = "free") => ev[j][2] # ev[i][2]

---------------------------------------------------------------------------
(* C12: when main has run to its end, whatever the exploration was, the
   cleanup has freed every Sala, every PistaNode and every HashEntry that
   was allocated exactly once: none is left, none is freed twice and none is
   read after it was freed; before the cleanup nothing is freed. *)
C12_LiberadoUmaVez ==
    /\ pc = "fim" =>
          /\ LiberaCadaUmUmaVez(liberados.salas, Len(salas))
          /\ LiberaCadaUmUmaVez(liberados.pistas, Len(pistas))
          /\ LiberaCadaUmUmaVez(liberados.entradas, Len(entradas))
    /\ pc # "fim" => liberados = NadaLiberado

\* the end of a run that collected two clues and made an accusation
C12_Witness ==
    /\ pc = "fim"
    /\ Len(pistas) = 2
    /\ Len(entradas) = 5
    /\ Len(salas) = 7
    /\ acusacao # <<>>
    /\ VezesLiberado(liberados.pistas, rootPistas) = 1

\* the end of a run whose input was empty: nothing collected, no accusation
C12_WitnessSemEntrada ==
    /\ pc = "fim"
    /\ pistas = <<>>
    /\ linha = <<>>
    /\ acusacao = <<>>
    /\ VezesLiberado(liberados.salas, Hall) = 1

---------------------------------------------------------------------------
(* C13: in every state the clue of each room is the one criarSala gave it in
   main, no step changes it, a collected flag that is set stays set, and the
   flag of a room without a clue is never set. *)
C13_PistaFixaFlagMonotona ==
    [][\A r \in 1..Len(SalasDeMain) :
          /\ salas[r].pista = SalasDeMain[r].pista
          /\ salas'[r].pista = salas[r].pista
          /\ salas[r].pistaColetada # 0 => salas'[r].pistaColetada # 0
          /\ salas[r].pista = NullStr => salas[r].pistaColetada = 0
          /\ salas'[r].pista = NullStr => salas'[r].pistaColetada = 0]_vars

\* in the garden, a room without a clue, after the clue of the library was
\* collected on the way
C13_Witness ==
    /\ pc = "comando"
    /\ saida = "sem_pista"
    /\ atual # Hall
    /\ salas[atual].pista = NullStr
    /\ salas[atual].pistaColetada = 0
    /\ salas[salas[Hall].esq].pistaColetada = 1

---------------------------------------------------------------------------
\* the calls made with the key p, and the last of them
InsercoesDe(p) == {i \in 1..Len(chamadasHash) : chamadasHash[i][1] = p}

UltimaInsercaoDe(p) == CHOOSE i \in InsercoesDe(p) : \A j \in InsercoesDe(p) : j <= i

(* C14: after any sequence of inserirNaHash calls, in which a key may occur
   several times and calls for other keys of the same bucket or of other
   buckets may lie in between, encontrarSuspeito returns for every inserted
   key the suspect of the last call made with that key. *)
C14_UltimoInseridoVence ==
    \A p \in PistasLib :
        InsercoesDe(p) # {} =>
            encontrarSuspeito(entradas, tabelaHash, p) = chamadasHash[UltimaInsercaoDe(p)][2]

\* "AB" inserted for "X", then "M" (same bucket) and "Ab" (another bucket),
\* then "AB" again for "Y"
C14_Witness ==
    /\ Len(chamadasHash) = 4
    /\ chamadasHash[1] = << <<65, 66>>, <<88>> >>
    /\ chamadasHash[2][1] = <<77>>
    /\ chamadasHash[3][1] = <<65, 98>>
    /\ chamadasHash[4] = << <<65, 66>>, <<89>> >>
    /\ Balde(<<77>>) = Balde(<<65, 66>>)
    /\ Balde(<<65, 98>>) # Balde(<<65, 66>>)
    /\ encontrarSuspeito(entradas, tabelaHash, <<65, 66>>) = <<89>>

---------------------------------------------------------------------------
(* Vocabulary of the properties about one inserirPista call *)

\* the step is an inserirPista call, and the clue it was called with
InseriuPista == chamadasPista' # chamadasPista

PistaInserida ==
    CHOOSE p \in BagToSet(chamadasPista') :
        CopiesIn(p, chamadasPista') > CopiesIn(p, chamadasPista)

\* the links that point to the node k after the step: the root pointer and
\* the left and right links of the nodes
LigacoesPara(k) ==
    (IF rootPistas' = k THEN {<<"root", NULL>>} ELSE {})
    \cup {<<"esq", n>> : n \in {m \in 1..Len(pistas') : pistas'[m].esq = k}}
    \cup {<<"dir", n>> : n \in {m \in 1..Len(pistas') : pistas'[m].dir = k}}

---------------------------------------------------------------------------
(* C15: an inserirPista call with a clue the ledger holds adds one to the
   counter of the node of that clue and changes nothing else: no node is
   added, and every node keeps its clue, its links and, but for that node,
   its counter.  A call with a new clue adds one node, a leaf with counter 1
   holding the clue, hung on one link that was NULL (or on the root pointer
   of an empty ledger); every node that existed keeps its clue, its counter
   and its other links, the root stays the root. *)
C15_EfeitoDeInserirPista ==
    [][InseriuPista =>
          IF \E n \in NosDoLivro : pistas[n].pista = PistaInserida
          THEN /\ Len(pistas') = Len(pistas)
               /\ rootPistas' = rootPistas
               /\ \A n \in 1..Len(pistas) :
                     /\ pistas'[n].pista = pistas[n].pista
                     /\ pistas'[n].esq = pistas[n].esq
                     /\ pistas'[n].dir = pistas[n].dir
                     /\ pistas'[n].contador =
                          IF pistas[n].pista = PistaInserida
                          THEN pistas[n].contador + 1 ELSE pistas[n].contador
          ELSE LET k == Len(pistas) + 1
               IN  /\ Len(pistas') = k
                   /\ pistas'[k] = [pista |-> PistaInserida, contador |-> 1,
                                    esq |-> NULL, dir |-> NULL]
                   /\ Cardinality(LigacoesPara(k)) = 1
                   /\ rootPistas' = IF rootPistas = NULL THEN k ELSE rootPistas
                   /\ \A n \in 1..Len(pistas) :
                         /\ pistas'[n].pista = pistas[n].pista
                         /\ pistas'[n].contador = pistas[n].contador
                         /\ pistas'[n].esq = pistas[n].esq
                              \/ (pistas[n].esq = NULL /\ pistas'[n].esq = k)
                         /\ pistas'[n].dir = pistas[n].dir
                              \/ (pistas[n].dir = NULL /\ pistas'[n].dir = k)]_vars

\* a ledger of three nodes in which a clue below the root was inserted again
C15_Witness ==
    /\ pc = "lib"
    /\ Len(pistas) = 3
    /\ BagCardinality(chamadasPista) = 4
    /\ pistas[rootPistas].contador = 1
    /\ \E n \in NosDoLivro : n # rootPistas /\ pistas[n].contador = 2

---------------------------------------------------------------------------
(* Vocabulary of the properties about the shipped map *)

SalaDeEstar == salas[Hall].dir
Corredor == salas[SalaDeEstar].esq

\* main has judged the accusation
Julgado == pc \in {"limpeza", "fim"}

---------------------------------------------------------------------------
(* C16: with the map and the table of main, whatever the commands and the
   accused name, the verdict is "sustentada" only when the accused is
   "Sra. Beatriz" and the player went from the hall to Sala de Estar and on
   to Corredor, where the exploration ended with both their clues
   collected; an accusation of "Sr. Almeida" or of "Srta. Camila" always
   gets "fraca"; the tally is never above 2. *)
C16_SoBeatrizSustentada ==
    Julgado =>
        /\ saida = "sustentada" =>
              /\ acusacao = Beatriz
              /\ atual = Corredor
              /\ salas[SalaDeEstar].pistaColetada = 1
              /\ salas[Corredor].pistaColetada = 1
              /\ totalQueApontam = <<2>>
        /\ acusacao \in {Almeida, Camila} => saida = "fraca"
        /\ totalQueApontam # <<>> => totalQueApontam[1] <= 2

\* Sra. Beatriz accused in Corredor: sustained with tally 2
C16_Witness ==
    /\ pc = "limpeza"
    /\ saida = "sustentada"
    /\ acusacao = Beatriz
    /\ atual = Corredor
    /\ listagem = << <<Copo, 1>>, <<Notas, 1>> >>

\* Sr. Almeida accused in Oficina with the one clue against him there
C16_WitnessAlmeida ==
    /\ pc = "limpeza"
    /\ saida = "fraca"
    /\ acusacao = Almeida
    /\ totalQueApontam = <<1>>
    /\ atual = salas[SalaDeEstar].dir

---------------------------------------------------------------------------
(* Vocabulary of the properties about the path of the exploration *)

\* the rooms of visitadas, as a set
SalasVisitadas == {visitadas[i] : i \in 1..Len(visitadas)}

\* the rooms whose clue was collected and that hold the clue p
SalasColetadasCom(p) ==
    {r \in 1..Len(salas) : salas[r].pista = p /\ salas[r].pistaColetada # 0}

\* the clues of the rooms and of the ledger
PistasConhecidas ==
    {salas[r].pista : r \in SalasComPista} \cup {pistas[n].pista : n \in NosDoLivro}

---------------------------------------------------------------------------
(* C17: during the exploration the current room is one of the rooms, never
   NULL; the rooms the player has been in start at the hall, end at the
   current room, and each is a child of the one before it; after the browse
   step of an iteration the rooms whose clue is collected are the rooms
   with a clue among them, and the ledger counts each clue as many times as
   there are rooms that hold it and have their collected flag set. *)
C17_LivroDoCaminho ==
    NaExploracao =>
        /\ atual \in 1..Len(salas)
        /\ visitadas[1] = Hall
        /\ visitadas[Len(visitadas)] = atual
        /\ \A i \in 1..(Len(visitadas) - 1) :
              /\ visitadas[i + 1] # NULL
              /\ visitadas[i + 1] \in {salas[visitadas[i]].esq, salas[visitadas[i]].dir}
        /\ pc = "comando" =>
              /\ \A r \in 1..Len(salas) :
                    salas[r].pistaColetada # 0 <=>
                        (r \in SalasVisitadas /\ salas[r].pista # NullStr)
              /\ \A p \in PistasConhecidas :
                    ContagemNoLivro(p) = Cardinality(SalasColetadasCom(p))

\* in Corredor, browsed a second time, with the clues of Sala de Estar and
\* of Corredor in the ledger
C17_Witness ==
    /\ pc = "comando"
    /\ visitadas = <<Hall, SalaDeEstar, Corredor>>
    /\ saida = "ja_coletada"
    /\ linha = <<120>>
    /\ Len(pistas) = 2

---------------------------------------------------------------------------
(* C18: every read of the exploration loop consumes a complete line of the
   input, however long: nothing of the line is left unread after it, so no
   read of the loop, and not the read of the accused name, starts in the
   middle of a line. *)
C18_UmaLinhaPorLeitura ==
    [][/\ pc = "comando" => resto' = <<>>
       /\ pc \in {"comando", "acusacao"} => resto = <<>>]_vars

---------------------------------------------------------------------------
(* Vocabulary of the properties about the bag of the inserted clues *)

\* l lists the clues of the bag, each once with its number of copies, in
\* ascending byte order; a bag has exactly one such list
ListagemDoSaco(l, saco) ==
    /\ Len(l) = Cardinality(BagToSet(saco))
    /\ {l[i] : i \in 1..Len(l)} = {<<p, CopiesIn(p, saco)>> : p \in BagToSet(saco)}
    /\ \A i \in 1..Len(l), j \in 1..Len(l) : i < j => MenorBytes(l[i][1], l[j][1])

\* the copies in the bag of the clues of S, added up
RECURSIVE SomaCopias(_, _)
SomaCopias(S, saco) ==
    IF S = {} THEN 0
    ELSE LET p == CHOOSE x \in S : TRUE
         IN  CopiesIn(p, saco) + SomaCopias(S \ {p}, saco)

\* the tally for alvo as the bag and the table give it
TotalDoSaco(alvo, saco) ==
    SomaCopias({p \in BagToSet(saco) : encontrarSuspeito(entradas, tabelaHash, p) = alvo}, saco)

---------------------------------------------------------------------------
(* C19: the listing of exibirPistasInOrder and, for every accused name, the
   tally of contarPistasQueApontam are determined by the bag of the clues
   inserted into the ledger (and the table): whatever the order of the
   insertions and the shape of the tree they built, the listing is the
   ascending list of the clues of the bag with their numbers of copies, and
   the tally is the number of copies of the clues the table resolves to the
   accused. *)
C19_SoOSacoImporta ==
    /\ pc = "lib" =>
          /\ ListagemDoSaco(exibirPistasInOrder(pistas, rootPistas), chamadasPista)
          /\ \A alvo \in SuspeitosLib :
                contarPistasQueApontam(pistas, rootPistas, entradas, tabelaHash, alvo)
                  = TotalDoSaco(alvo, chamadasPista)
    /\ pc = "lib_fim" =>
          /\ ListagemDoSaco(listagem, chamadasPista)
          /\ acusacao # <<>> => totalQueApontam = <<TotalDoSaco(acusacao, chamadasPista)>>

\* the clues inserted in descending order: the tree is a chain to the left,
\* and the listing is the same as for any other order
C19_Witness ==
    /\ pc = "lib_fim"
    /\ chamadasPista = SetToBag(PistasLib) (+) SetToBag({<<77>>})
    /\ pistas[rootPistas].pista = <<77>>
    /\ pistas[rootPistas].dir = NULL
    /\ pistas[pistas[rootPistas].esq].esq # NULL
    /\ listagem = << << <<65, 66>>, 1 >>, << <<65, 98>>, 1 >>, << <<77>>, 2 >> >>
    /\ totalQueApontam = <<3>>

\* the same bag of clues in a tree of another shape, its root the middle clue
C19_WitnessOutraForma ==
    /\ pc = "lib_fim"
    /\ chamadasPista = SetToBag(PistasLib) (+) SetToBag({<<77>>})
    /\ pistas[rootPistas].pista = <<65, 98>>
    /\ listagem = << << <<65, 66>>, 1 >>, << <<65, 98>>, 1 >>, << <<77>>, 2 >> >>
    /\ totalQueApontam = <<3>>

====
